---------------------------- MODULE Spec2Model ----------------------------
(***************************************************************************)
(* Model of the Polyglot v2 Node.js interface: the transport session       *)
(* (lib/Interface.js _mqttStart), the inbound message queue (lib/Queue.js),*)
(* the dispatch of inbound messages (_onMessage, _onMessageQueued), the    *)
(* snapshot reconciliation (_onConfig), the correlation table              *)
(* (sendMessageAsync, _onResult) and the parts of the Node class           *)
(* (README.md, "Node class") that the queued handlers call.                *)
(*                                                                         *)
(* The JavaScript program runs on one thread.  One action of the model is  *)
(* one run-to-completion turn of that thread: a transport callback, a      *)
(* promise continuation, a process.nextTick callback, a timer callback or  *)
(* a call made by the hosting application.                                 *)
(***************************************************************************)
EXTENDS Integers, Sequences, FiniteSets, TLC

(***************************************************************************)
(* Bounds of the model.                                                    *)
(***************************************************************************)
\* inbound messages delivered to _onMessage
MaxMsgs == 3
\* result messages delivered to _onMessage, where only results are sent
MaxResults == 2
\* calls of sendMessageAsync made by the hosting application
MaxCalls == 3
\* calls of addNode made by the hosting application
MaxAddNode == 2
\* transport lifecycle events (connect, reconnect, offline, close, end)
MaxTransport == 4
\* messages published, for the plain sends of the hosting application
MaxSent == 3
\* snapshots delivered where one snapshot is sent again and again
MaxLoop == 32
\* snapshots delivered where the drivers are set
MaxNodeConfigs == 1
\* calls of setDriver and reportDriver made by the hosting application
MaxNodeCalls == 2
\* plain calls of the hosting application (restart, setDriver, reportDriver)
MaxApi == 3
\* inbound messages the message handler passes over
MaxIgnored == 2
\* result messages delivered where what happens in the end is looked at
MaxLiveResults == 1

(***************************************************************************)
(* Program constants.                                                      *)
(***************************************************************************)
\* sendMessageAsync(key, message, timeout = 15000)
DefaultTimeout == 15000
\* _detectConfigLoop: "Trigger is over 30 configs within 10 seconds"
ConfigLoopLimit == 30
\* _onConfig: n.address.slice(5) drops the 5-character profile prefix
AddressPrefixLen == 5

(***************************************************************************)
(* Values of the hosting application and of the remote counterpart.        *)
(***************************************************************************)
\* device addresses, without the profile prefix
Addrs == {"a1", "a2"}
\* the reason strings a result message carries
Reasons == {"added", "refused"}
\* the node classes declared to the Interface constructor (nodeDefId)
NodeDefIds == {"CTL"}
\* the command map of the declared class (Node.commands)
CommandsOf(id) == IF id = "CTL" THEN {"DON"} ELSE {}
\* command names the remote counterpart may send
CmdNames == {"DON", "BAD"}
\* typed JavaScript values: typeof and the value
StrV(s) == [t |-> "string", v |-> s]
BoolV(b) == [t |-> "boolean", v |-> b]
NumV(n) == [t |-> "number", v |-> n]
\* the unit code of a boolean driver (convertValue: uom !== 2), and the unit
\* code of the example driver of the documentation
BooleanUom == 2
OtherUom == 51

\* the drivers of the declared class (Node.drivers): one with the boolean
\* unit code and one with another; changed is not there at first (falsy)
DriversOf(id) ==
  IF id = "CTL"
  THEN [ST |-> [value |-> NumV(0), uom |-> BooleanUom, changed |-> FALSE],
        GV1 |-> [value |-> NumV(0), uom |-> OtherUom, changed |-> FALSE]]
  ELSE <<>>

\* a full address as the remote counterpart writes it: prefix and local part
FullAddr(a) == <<"n", "0", "0", "1", "_", a>>

\* String.prototype.slice(5) on a full address: what follows the first five
\* characters (the local part is kept as one symbol), "" when nothing follows
slice5(s) == IF Len(s) > AddressPrefixLen
             THEN Head(SubSeq(s, AddressPrefixLen + 1, Len(s)))
             ELSE ""

\* one entry of config.newNodes
NodeEntry(a, def) ==
  [address |-> FullAddr(a), primary |-> FullAddr(a), nodedef |-> def,
   name |-> a, controller |-> StrV("true"), isprimary |-> BoolV(TRUE),
   timeAdded |-> StrV("1000")]

\* the snapshots the remote counterpart may send
Snap1 == [newNodes |-> <<NodeEntry("a1", "CTL")>>,
          customParams |-> [k1 |-> "v1"]]
Snap2 == [newNodes |-> <<NodeEntry("a1", "CTL"), NodeEntry("a2", "UNK")>>,
          customParams |-> [k1 |-> "v2"]]
Snapshots == {Snap1, Snap2}

\* more snapshots: two declared devices and a second parameter; the same
\* address twice and the second parameter gone; a drivers property in the
\* shape addNode sends (an array of driver, value, uom); a registered address
\* whose type id is not declared any more
Snap3 == [newNodes |-> <<NodeEntry("a1", "CTL"), NodeEntry("a2", "CTL")>>,
          customParams |-> [k1 |-> "v1", k2 |-> "v2"]]
Snap4 == [newNodes |-> <<NodeEntry("a1", "CTL"), NodeEntry("a1", "CTL")>>,
          customParams |-> [k1 |-> "v1"]]
Snap5 == [newNodes |->
            <<[NodeEntry("a1", "CTL") EXCEPT !.isprimary = BoolV(FALSE)]
              @@ [drivers |->
                    ("0" :> [driver |-> "ST", value |-> StrV("1"),
                             uom |-> BooleanUom])]>>,
          customParams |-> [k1 |-> "v1"]]
Snap6 == [newNodes |->
            <<[NodeEntry("a1", "UNK") EXCEPT !.controller = StrV("false")],
              NodeEntry("a2", "CTL")>>,
          customParams |-> [k1 |-> "v1"]]
RegistrySnapshots == {Snap1, Snap2, Snap3, Snap4, Snap5, Snap6}

(***************************************************************************)
(* State.                                                                  *)
(***************************************************************************)
VARIABLES
  socket,                 \* the MQTT client's real connection state
  presence,               \* connected of the last presence message seen
  nTransport,             \* transport lifecycle events delivered so far
  mqttClientConnected,    \* Interface._mqttClientConnected
  mqttPolyglotConnected,  \* Interface._mqttPolyglotConnected
  shuttingDown,           \* Interface._shuttingDown
  config,                 \* Interface._config: <<>> is null, <<c>> a config
  nodes,                  \* Interface._nodes: address -> node object
  configCounter,          \* Interface._configCounter
  configTimers,           \* armed setTimeout callbacks of _detectConfigLoop
  tracking,               \* Interface._messageAsyncTracking: key -> call
  calls,                  \* the sendMessageAsync calls made, in call order
  pool,                   \* dataq.pool
  Qprocessing,            \* dataq.Qprocessing
  ticks,                  \* process.nextTick callbacks of dataq not yet run
  handled,                \* the invocations of dataq.dataProcessor, in order
  nAdded,                 \* items given to dataq.add so far
  nMsgs,                  \* inbound messages delivered to _onMessage so far
  events,                 \* what the Interface emitted, in order
  sent,                   \* what was given to mqttClient.publish, in order
  api,                    \* the plain calls of the hosting application
  subscribed,             \* the topics given to mqttClient.subscribe
  nIgnored                \* inbound messages the message handler passed over

vars == <<socket, presence, nTransport, mqttClientConnected, mqttPolyglotConnected,
          shuttingDown, config, nodes, configCounter, tracking, calls, pool,
          Qprocessing, ticks, handled, nAdded, nMsgs, events, sent,
          configTimers, api, subscribed, nIgnored>>

\* the program state as one record, for the operators that model methods;
\* thrown: an exception is propagating out of the method being run
State ==
  [mqttClientConnected |-> mqttClientConnected,
   mqttPolyglotConnected |-> mqttPolyglotConnected,
   shuttingDown |-> shuttingDown, config |-> config, nodes |-> nodes,
   configCounter |-> configCounter, configTimers |-> configTimers,
   tracking |-> tracking, calls |-> calls,
   pool |-> pool, Qprocessing |-> Qprocessing, ticks |-> ticks,
   handled |-> handled, nAdded |-> nAdded, events |-> events, sent |-> sent,
   subscribed |-> subscribed, thrown |-> FALSE]

\* the state after a method has run
Commit(st) ==
  /\ mqttClientConnected' = st.mqttClientConnected
  /\ mqttPolyglotConnected' = st.mqttPolyglotConnected
  /\ shuttingDown' = st.shuttingDown
  /\ config' = st.config
  /\ nodes' = st.nodes
  /\ configCounter' = st.configCounter
  /\ configTimers' = st.configTimers
  /\ tracking' = st.tracking
  /\ calls' = st.calls
  /\ pool' = st.pool
  /\ Qprocessing' = st.Qprocessing
  /\ ticks' = st.ticks
  /\ handled' = st.handled
  /\ nAdded' = st.nAdded
  /\ events' = st.events
  /\ sent' = st.sent
  /\ subscribed' = st.subscribed

\* the correlation keys: 'addnode-' + address
KeyOf(a) == <<"addnode", a>>
Keys == {KeyOf(a) : a \in Addrs}

\* a call of the hosting application: method op, on the node at address,
\* with the arguments of setDriver or reportDriver (uom 0 is null)
Call(op, address, driver, value, report, forceReport, uom) ==
  [op |-> op, address |-> address, driver |-> driver, value |-> value,
   report |-> report, forceReport |-> forceReport, uom |-> uom]

\* Interface constructor
Init ==
  /\ socket = "connecting"
  /\ presence = FALSE
  /\ nTransport = 0
  /\ mqttClientConnected = FALSE
  /\ mqttPolyglotConnected = FALSE
  /\ shuttingDown = FALSE
  /\ config = <<>>
  /\ nodes = <<>>
  /\ configCounter = 0
  /\ configTimers = 0
  /\ tracking = [k \in Keys |-> 0]
  /\ calls = <<>>
  /\ pool = <<>>
  /\ Qprocessing = 0
  /\ ticks = 0
  /\ handled = <<>>
  /\ nAdded = 0
  /\ nMsgs = 0
  /\ events = <<>>
  /\ sent = <<>>
  /\ api = <<>>
  /\ subscribed = {}
  /\ nIgnored = 0

(***************************************************************************)
(* Helpers for JavaScript objects.                                         *)
(***************************************************************************)
\* obj[key] = val, adding the key when the object does not have it
SetProp(obj, key, val) == (key :> val) @@ obj

\* delete obj[key]
DelProp(obj, key) == [k \in (DOMAIN obj) \ {key} |-> obj[k]]

\* Object.keys(obj) as a sequence, in one fixed order
RECURSIVE KeysOfSet(_)
KeysOfSet(S) == IF S = {} THEN <<>>
                ELSE LET k == CHOOSE x \in S : TRUE
                     IN  <<k>> \o KeysOfSet(S \ {k})
ObjectKeys(obj) == KeysOfSet(DOMAIN obj)

\* parseInt(t, 10) on the timestamps the remote counterpart sends
parseInt10(t) == CASE t = "1000" -> 1000
                   [] t = "2000" -> 2000
                   [] OTHER -> -1

\* the profile number read from stdin, as a string ('' + this._profileNum)
ProfileNumStr == "1"

(***************************************************************************)
(* Interface: events and outbound messages.                                *)
(***************************************************************************)
\* EventEmitter.emit(name, arg)
emit(st, name, arg) ==
  [st EXCEPT !.events = Append(@, [name |-> name, arg |-> arg])]

\* Interface._sendMessage(message, retain); after: how many events had been
\* emitted when publish was called
_sendMessage(st, message, retain) ==
  LET m == SetProp(message, "node", ProfileNumStr)
      s1 == emit(st, "messageSent", m)
  IN  [s1 EXCEPT !.sent = Append(@, [message |-> m, retain |-> retain,
                                     after |-> Len(s1.events)])]

\* Interface.isConnected()
isConnected(st) == st.mqttClientConnected /\ st.mqttPolyglotConnected

\* a change of sendMessage: isConnected() is not looked at
sendMessageUnguarded(st, message) == _sendMessage(st, message, FALSE)

\* Interface.sendMessage(message)
sendMessage(st, message) ==
  IF isConnected(st) THEN _sendMessage(st, message, FALSE) ELSE st

(***************************************************************************)
(* Node (README.md, "Node class").                                         *)
(***************************************************************************)
\* new NodeClass(polyInterface, primary, address, name); the construction
\* time (new Date()) is time 0 of the model
NewNode(id, primary, address, name) ==
  [id |-> id, primary |-> primary, address |-> address, name |-> name,
   timeAdded |-> [t |-> "date", v |-> 0], enabled |-> FALSE,
   added |-> FALSE, commands |-> CommandsOf(id), drivers |-> DriversOf(id)]

\* Number.prototype.toString() of an integer: its decimal digits
Digit(d) == CASE d = 0 -> "0" [] d = 1 -> "1" [] d = 2 -> "2" [] d = 3 -> "3"
              [] d = 4 -> "4" [] d = 5 -> "5" [] d = 6 -> "6" [] d = 7 -> "7"
              [] d = 8 -> "8" [] d = 9 -> "9"
RECURSIVE NumberToString(_)
NumberToString(n) ==
  IF n < 0 THEN "-" \o NumberToString(-n)
  ELSE IF n < 10 THEN Digit(n)
  ELSE NumberToString(n \div 10) \o Digit(n % 10)

\* this.drivers[driver].changed as a condition: a missing property is falsy
IsChanged(d) == "changed" \in DOMAIN d /\ d.changed

\* a change of convertValue: a boolean is converted only for the boolean uom
convertValueForBooleanUom(node, driver, value) ==
  CASE value.t = "number" -> StrV(NumberToString(value.v))
    [] value.t = "boolean" ->
         IF node.drivers[driver].uom # BooleanUom THEN value
         ELSE StrV(IF value.v THEN "1" ELSE "0")
    [] OTHER -> value

\* Node.convertValue(driver, value); the warning for a boolean on another
\* uom is only logged
convertValue(node, driver, value) ==
  CASE value.t = "number" -> StrV(NumberToString(value.v))
    [] value.t = "boolean" -> StrV(IF value.v THEN "1" ELSE "0")
    [] OTHER -> value

\* a change of reportDriver: the changed flag is not cleared
reportDriverKeepsChanged(st, a, driver, forceReport) ==
  LET node == st.nodes[a] IN
  IF driver \in DOMAIN node.drivers
  THEN IF IsChanged(node.drivers[driver]) \/ forceReport
       THEN sendMessage(st, [status |->
                               [address |-> node.address, driver |-> driver,
                                value |-> node.drivers[driver].value,
                                uom |-> node.drivers[driver].uom]])
       ELSE st
  ELSE st

\* Node.reportDriver(driver, forceReport) of the node at address a
reportDriver(st, a, driver, forceReport) ==
  LET node == st.nodes[a] IN
  IF driver \in DOMAIN node.drivers
  THEN IF IsChanged(node.drivers[driver]) \/ forceReport
       THEN LET message == [status |->
                              [address |-> node.address, driver |-> driver,
                               value |-> node.drivers[driver].value,
                               uom |-> node.drivers[driver].uom]]
                s1 == sendMessage(st, message)
            IN  [s1 EXCEPT !.nodes[a].drivers[driver] =
                   SetProp(@, "changed", FALSE)]
       ELSE st
  ELSE st

\* Node.setDriver(driver, value, report, forceReport, uom) of the node at
\* address a; uom 0 is null
setDriver(st, a, driver, value, report, forceReport, uom) ==
  LET node == st.nodes[a] IN
  IF /\ driver \in DOMAIN node.drivers
     /\ "value" \in DOMAIN node.drivers[driver]
     /\ "uom" \in DOMAIN node.drivers[driver]
  THEN LET d0 == node.drivers[driver]
           d1 == IF uom # 0 /\ d0.uom # uom
                 THEN SetProp(SetProp(d0, "uom", uom), "changed", TRUE)
                 ELSE d0
           v == convertValue(node, driver, value)
           d2 == IF d1.value # v
                 THEN SetProp(SetProp(d1, "value", v), "changed", TRUE)
                 ELSE d1
           s2 == [st EXCEPT !.nodes[a].drivers[driver] = d2]
       IN  IF report THEN reportDriver(s2, a, driver, forceReport) ELSE s2
  ELSE st

\* Node.reportDrivers(forceReport): reportDriver for every driver key
RECURSIVE reportEach(_, _, _, _)
reportEach(st, a, ks, forceReport) ==
  IF ks = <<>> THEN st
  ELSE reportEach(reportDriver(st, a, Head(ks), forceReport), a, Tail(ks),
                  forceReport)
reportDrivers(st, a, forceReport) ==
  reportEach(st, a, ObjectKeys(st.nodes[a].drivers), forceReport)

\* Node.query() and Node.status(): this.reportDrivers() with its default, true
query(st, a) == reportDrivers(st, a, TRUE)
status(st, a) == reportDrivers(st, a, TRUE)

\* Interface.getNode(address): whether this._nodes[address] is there
getNode(st, address) == address \in DOMAIN st.nodes

(***************************************************************************)
(* Interface: snapshot reconciliation.                                     *)
(***************************************************************************)
\* a change of _setParamsDetected: every key of the new map counts as changed
setParamsDetectedAnyKey(oldConfig, newConfig) ==
  "customParams" \in DOMAIN newConfig /\ DOMAIN newConfig.customParams # {}

\* Interface._setParamsDetected(oldConfig, newConfig): the value it gives
\* newConfig.newParamsDetected; oldConfig is <<>> (null) or <<c>>
_setParamsDetected(oldConfig, newConfig) ==
  LET oldHas == oldConfig # <<>> /\ "customParams" \in DOMAIN oldConfig[1]
      oldConfigParamsKeys ==
        IF oldHas THEN DOMAIN oldConfig[1].customParams ELSE {}
      newConfigParamsKeys ==
        IF "customParams" \in DOMAIN newConfig
        THEN DOMAIN newConfig.customParams ELSE {}
      changedParams ==
        {key \in newConfigParamsKeys :
           ~(key \in oldConfigParamsKeys /\
             oldConfig[1].customParams[key] = newConfig.customParams[key])}
  IN  changedParams # {}

\* a change of _detectConfigLoop: the limit itself trips the guard
detectConfigLoopAtLimit(st) ==
  LET s1 == [st EXCEPT !.configCounter = @ + 1, !.configTimers = @ + 1]
  IN  [st |-> s1, ret |-> s1.configCounter >= ConfigLoopLimit]

\* Interface._detectConfigLoop(): the counter is incremented (its decrement
\* is the timer ConfigLoopTimer) and compared with the limit
_detectConfigLoop(st) ==
  LET s1 == [st EXCEPT !.configCounter = @ + 1, !.configTimers = @ + 1]
  IN  [st |-> s1, ret |-> s1.configCounter > ConfigLoopLimit]

\* _onConfig, propertyMapper: the conversion of one property
propertyMapper(prop, val) ==
  CASE prop = "controller" ->
         IF val.t = "string" THEN BoolV(val.v = "true") ELSE val
    [] prop = "timeAdded" ->
         IF val.t = "string" THEN [t |-> "date", v |-> parseInt10(val.v)]
         ELSE val
    [] prop = "profileNum" ->
         IF val.t = "string" THEN BoolV(val.v = "true") ELSE val
    [] OTHER -> val

\* the properties _onConfig copies from a snapshot entry, in its order
MergedProps == <<"controller", "drivers", "isprimary", "profileNum",
                 "timeAdded">>

\* _onConfig: the inner forEach over the copied properties
RECURSIVE mergeProps(_, _, _)
mergeProps(node, n, props) ==
  IF props = <<>> THEN node
  ELSE LET prop == Head(props)
           node1 == IF prop \in DOMAIN n
                    THEN SetProp(node, prop, propertyMapper(prop, n[prop]))
                    ELSE node
       IN  mergeProps(node1, n, Tail(props))

\* a change of configEntry: a device of a declared class is constructed anew
\* for every entry
configEntryRebuilds(st, n) ==
  LET address == slice5(n.address)
      exists == address \in DOMAIN st.nodes
      known == n.nodedef \in NodeDefIds
      primary == slice5(n.primary)
  IN  IF ~exists /\ ~known THEN st
      ELSE LET node == IF known
                       THEN NewNode(n.nodedef, primary, address, n.name)
                       ELSE st.nodes[address]
           IN  [st EXCEPT !.nodes =
                  SetProp(@, address, mergeProps(node, n, MergedProps))]

\* a change of configEntry: a device is created whatever the class lookup
\* gives
configEntryCreatesAny(st, n) ==
  LET address == slice5(n.address)
      exists == address \in DOMAIN st.nodes
      primary == slice5(n.primary)
      node == IF exists THEN st.nodes[address]
              ELSE NewNode(n.nodedef, primary, address, n.name)
  IN  [st EXCEPT !.nodes =
         SetProp(@, address, mergeProps(node, n, MergedProps))]

\* _onConfig: the body of config.newNodes.forEach for one entry
configEntry(st, n) ==
  LET address == slice5(n.address)
      exists == address \in DOMAIN st.nodes
      known == n.nodedef \in NodeDefIds
      primary == slice5(n.primary)
  IN  IF ~exists /\ ~known THEN st
      ELSE LET node == IF exists THEN st.nodes[address]
                       ELSE NewNode(n.nodedef, primary, address, n.name)
           IN  [st EXCEPT !.nodes =
                  SetProp(@, address, mergeProps(node, n, MergedProps))]

\* _onConfig: config.newNodes.forEach
RECURSIVE configEntries(_, _)
configEntries(st, ns) ==
  IF ns = <<>> THEN st
  ELSE configEntries(configEntry(st, Head(ns)), Tail(ns))

\* _onConfig: "Remove nodes ... that are no longer in the config"
removeNodes(st, cfg) ==
  IF Len(cfg.newNodes) # Cardinality(DOMAIN st.nodes)
  THEN LET found(address) ==
             \E i \in 1..Len(cfg.newNodes) :
               address = slice5(cfg.newNodes[i].address)
           kept == {address \in DOMAIN st.nodes : found(address)}
       IN  [st EXCEPT !.nodes = [address \in kept |-> st.nodes[address]]]
  ELSE st

\* a change of _onConfig: the event is emitted whatever the loop guard says
onConfigAlwaysEmits(st, cfg) ==
  LET isInitialConfig == st.config = <<>>
      s1 == configEntries(st, cfg.newNodes)
      s2 == removeNodes(s1, cfg)
      cfg2 == SetProp(cfg, "newParamsDetected",
                      _setParamsDetected(s2.config, cfg))
      s3 == [s2 EXCEPT !.config = <<cfg2>>]
      loop == _detectConfigLoop(s3)
  IN  emit(loop.st, "config",
           [config |-> cfg2, isInitialConfig |-> isInitialConfig,
            nodes |-> loop.st.nodes])

\* a change of _onConfig: isInitialConfig is read after the config is cached
onConfigLateInitialTest(st, cfg) ==
  LET s1 == configEntries(st, cfg.newNodes)
      s2 == removeNodes(s1, cfg)
      cfg2 == SetProp(cfg, "newParamsDetected",
                      _setParamsDetected(s2.config, cfg))
      s3 == [s2 EXCEPT !.config = <<cfg2>>]
      isInitialConfig == s3.config = <<>>
      loop == _detectConfigLoop(s3)
  IN  IF ~loop.ret
      THEN emit(loop.st, "config",
                [config |-> cfg2, isInitialConfig |-> isInitialConfig,
                 nodes |-> loop.st.nodes])
      ELSE loop.st

\* Interface._onConfig(config)
_onConfig(st, cfg) ==
  LET isInitialConfig == st.config = <<>>
      s1 == configEntries(st, cfg.newNodes)
      s2 == removeNodes(s1, cfg)
      cfg2 == SetProp(cfg, "newParamsDetected",
                      _setParamsDetected(s2.config, cfg))
      s3 == [s2 EXCEPT !.config = <<cfg2>>]
      loop == _detectConfigLoop(s3)
  IN  IF ~loop.ret
      THEN emit(loop.st, "config",
                [config |-> cfg2, isInitialConfig |-> isInitialConfig,
                 nodes |-> loop.st.nodes])
      ELSE loop.st

(***************************************************************************)
(* Interface: the correlation table.                                       *)
(***************************************************************************)
\* what a promise of sendMessageAsync settles with
ReasonValue(reason) == [type |-> "string", name |-> "undefined",
                        text |-> reason]
\* a change of TimeoutError: err.name is not set
TimeoutErrorUnnamed == [type |-> "Error", name |-> "Error",
                        text |-> "Polyglot result message not received"]
TimeoutError == [type |-> "Error", name |-> "timeout",
                 text |-> "Polyglot result message not received"]
NotConnectedError == [type |-> "Error", name |-> "Error",
                      text |-> "Polyglot not connected"]

\* the resolve callback of call c's promise: a settled promise stays as it is
resolve(st, c, value) ==
  IF st.calls[c].state = "pending"
  THEN [st EXCEPT !.calls[c].state = "resolved", !.calls[c].value = value]
  ELSE st

\* the reject callback of call c's promise
reject(st, c, value) ==
  IF st.calls[c].state = "pending"
  THEN [st EXCEPT !.calls[c].state = "rejected", !.calls[c].value = value]
  ELSE st

\* a change of resultKey: resolve and reject are exchanged
resultKeySwapped(st, messageContent, key) ==
  IF key = "addnode"
  THEN LET address == messageContent[key].address
           k == KeyOf(address)
           trackedRequest == IF k \in DOMAIN st.tracking
                             THEN st.tracking[k] ELSE 0
       IN  IF trackedRequest # 0
           THEN IF ~st.calls[trackedRequest].handles
                THEN [st EXCEPT !.thrown = TRUE]
                ELSE IF messageContent[key].success
                     THEN reject(st, trackedRequest,
                                 ReasonValue(messageContent[key].reason))
                     ELSE resolve(st, trackedRequest,
                                  ReasonValue(messageContent[key].reason))
           ELSE st
  ELSE st

\* _onResult: the body of Object.keys(messageContent).forEach for one key
resultKey(st, messageContent, key) ==
  IF key = "addnode"
  THEN LET address == messageContent[key].address
           k == KeyOf(address)
           trackedRequest == IF k \in DOMAIN st.tracking
                             THEN st.tracking[k] ELSE 0
       IN  IF trackedRequest # 0
           THEN IF ~st.calls[trackedRequest].handles
                THEN [st EXCEPT !.thrown = TRUE]
                ELSE IF messageContent[key].success
                     THEN resolve(st, trackedRequest,
                                  ReasonValue(messageContent[key].reason))
                     ELSE reject(st, trackedRequest,
                                 ReasonValue(messageContent[key].reason))
           ELSE st
  ELSE st

\* Interface._onResult(messageContent)
RECURSIVE resultKeys(_, _, _)
resultKeys(st, messageContent, ks) ==
  IF ks = <<>> \/ st.thrown THEN st
  ELSE resultKeys(resultKey(st, messageContent, Head(ks)), messageContent,
                  Tail(ks))
_onResult(st, messageContent) ==
  resultKeys(st, messageContent, ObjectKeys(messageContent))

\* a change of issue: the timer of the timeout is not set
issueWithoutTimer(st, c) ==
  LET call == st.calls[c]
      s1 == IF isConnected(st)
            THEN LET s0 == _sendMessage(st, call.message, FALSE)
                 IN  [s0 EXCEPT !.calls[c].state = "pending",
                                !.calls[c].handles = TRUE,
                                !.calls[c].published = TRUE,
                                !.calls[c].sentAt = Len(s0.sent)]
            ELSE [st EXCEPT !.calls[c].state = "rejected",
                            !.calls[c].value = NotConnectedError]
  IN  [s1 EXCEPT !.tracking[call.key] = c]

\* sendMessageAsync after its await: the new tracker, its promise's executor
\* and the registration of the tracker under the key
issue(st, c) ==
  LET call == st.calls[c]
      s1 == IF isConnected(st)
            THEN LET s0 == _sendMessage(st, call.message, FALSE)
                 IN  [s0 EXCEPT !.calls[c].state = "pending",
                                !.calls[c].handles = TRUE,
                                !.calls[c].published = TRUE,
                                !.calls[c].sentAt = Len(s0.sent),
                                !.calls[c].timer = (call.timeout # 0)]
            ELSE [st EXCEPT !.calls[c].state = "rejected",
                            !.calls[c].value = NotConnectedError]
  IN  [s1 EXCEPT !.tracking[call.key] = c]

\* Interface.sendMessageAsync(key, message, timeout), up to its first await
sendMessageAsync(st, key, message, timeout) ==
  LET c == Len(st.calls) + 1
      call == [key |-> key, message |-> message, timeout |-> timeout,
               state |-> "waiting", waitsOn |-> st.tracking[key],
               handles |-> FALSE, published |-> FALSE, sentAt |-> 0,
               timer |-> FALSE,
               value |-> [type |-> "none", name |-> "", text |-> ""]]
      s1 == [st EXCEPT !.calls = Append(@, call)]
  IN  IF st.tracking[key] # 0 THEN s1 ELSE issue(s1, c)

\* Interface.addNode(node) for a node object with the given address
addNode(st, a) ==
  sendMessageAsync(st, KeyOf(a),
                   [addnode |-> [nodes |-> <<[address |-> a]>>]],
                   DefaultTimeout)

(***************************************************************************)
(* Interface and dataq: the queued messages.                               *)
(*                                                                         *)
(* An item of the pool carries, besides messageKey and messageContent, its *)
(* arrival number (id), whether the shutdown flag was already set when it  *)
(* was added (late) and whether the queue was processing then (busy).      *)
(* An entry of handled is one invocation of the queue's dataProcessor:     *)
(* the item's id, late and busy, what the invocation did (disp), how many  *)
(* events it emitted and messages it published, the state of the promise   *)
(* it returned ("pending", "fulfilled", "rejected", and "done" once the    *)
(* queue's catch/then callbacks have run), how that promise settled        *)
(* (outcome) and whether the shutdown flag was set when the invocation     *)
(* started (startedLate) and when its promise settled (endedLate).         *)
(***************************************************************************)
Invocation(opt, disp, state, emitted, published, shut) ==
  [id |-> opt.id, late |-> opt.late, busy |-> opt.busy,
   messageKey |-> opt.messageKey, messageContent |-> opt.messageContent,
   disp |-> disp, state |-> state,
   emitted |-> emitted, published |-> published, startedLate |-> shut,
   outcome |-> IF state = "pending" THEN "none" ELSE state,
   endedLate |-> IF state = "pending" THEN FALSE ELSE shut]

\* a change of runCmd: the function is not looked up in this.commands, the
\* handler of the hosting application is called for any name
runCmdAnyName(st, a, cmdMessage) == "pending"

\* Node.runCmd(cmdMessage) of the node at address a: the state of the promise
\* it returns.  A command of the class runs the hosting application's
\* handler, whose promise settles later (HandlerSettles); a name that is not
\* in this.commands makes nodeCommandFunction.call throw a TypeError
runCmd(st, a, cmdMessage) ==
  IF cmdMessage.cmd \in st.nodes[a].commands THEN "pending" ELSE "rejected"

\* the invocation of _onMessageQueued for opt, which went from st0 to s
invoked(st0, s, opt, disp, state) ==
  [s EXCEPT !.handled =
     Append(@, Invocation(opt, disp, state,
                          Len(s.events) - Len(st0.events),
                          Len(s.sent) - Len(st0.sent),
                          st0.shuttingDown))]

\* _onMessageQueued: switch (messageKey)
dispatchQueued(st, opt) ==
  LET messageKey == opt.messageKey
      messageContent == opt.messageContent
  IN
  CASE messageKey = "config" ->
         invoked(st, _onConfig(st, messageContent), opt, "dispatched",
                 "fulfilled")
    [] messageKey = "query" ->
         IF getNode(st, messageContent.address)
         THEN invoked(st, query(st, messageContent.address), opt,
                      "dispatched", "fulfilled")
         ELSE invoked(st, st, opt, "nonode", "fulfilled")
    [] messageKey = "status" ->
         IF getNode(st, messageContent.address)
         THEN invoked(st, status(st, messageContent.address), opt,
                      "dispatched", "fulfilled")
         ELSE invoked(st, st, opt, "nonode", "fulfilled")
    [] messageKey = "command" ->
         IF getNode(st, messageContent.address)
         THEN LET r == runCmd(st, messageContent.address, messageContent)
              IN  invoked(st, st, opt,
                          IF r = "pending" THEN "dispatched"
                          ELSE "nocommand", r)
         ELSE invoked(st, st, opt, "nonode", "fulfilled")
    [] messageKey = "shortPoll" ->
         invoked(st, emit(st, "poll", FALSE), opt, "dispatched", "fulfilled")
    [] messageKey = "longPoll" ->
         invoked(st, emit(st, "poll", TRUE), opt, "dispatched", "fulfilled")
    [] OTHER -> invoked(st, st, opt, "invalid", "fulfilled")

\* a change of _onMessageQueued: the shutdown flag is not looked at
onMessageQueuedUnguarded(st, opt) == dispatchQueued(st, opt)

\* Interface._onMessageQueued(opt)
_onMessageQueued(st, opt) ==
  IF ~st.shuttingDown
  THEN dispatchQueued(st, opt)
  ELSE invoked(st, st, opt, "dropped", "fulfilled")

\* a change of process: the test of Qprocessing is left out
processUnguarded(st) ==
  IF Len(st.pool) # 0
  THEN LET s1 == [st EXCEPT !.Qprocessing = @ + 1, !.pool = Tail(@)]
       IN  _onMessageQueued(s1, Head(st.pool))
  ELSE st

\* dataq.process(): the synchronous part, up to the call of the dataProcessor
process(st) ==
  IF st.Qprocessing = 0 /\ Len(st.pool) # 0
  THEN LET s1 == [st EXCEPT !.Qprocessing = @ + 1, !.pool = Tail(@)]
       IN  _onMessageQueued(s1, Head(st.pool))
  ELSE st

\* a change of processThen: then(...) before catch(...), so that the then
\* callback does not run after a rejection
processThenBeforeCatch(st, h) ==
  IF st.handled[h].state = "rejected"
  THEN [st EXCEPT !.handled[h].state = "done"]
  ELSE [st EXCEPT !.handled[h].state = "done",
                  !.Qprocessing = @ - 1,
                  !.ticks = @ + 1]

\* dataq.process(): the catch and then callbacks of one invocation
processThen(st, h) ==
  [st EXCEPT !.handled[h].state = "done",
             !.Qprocessing = @ - 1,
             !.ticks = @ + 1]

\* a change of add: the item is pushed and process() is not called
addWithoutProcess(st, item) ==
  LET opt == [messageKey |-> item.messageKey,
              messageContent |-> item.messageContent,
              id |-> st.nAdded + 1, late |-> st.shuttingDown,
              busy |-> st.Qprocessing # 0]
  IN  [st EXCEPT !.pool = Append(@, opt), !.nAdded = @ + 1]

\* a change of add: unshift instead of push
addFront(st, item) ==
  LET opt == [messageKey |-> item.messageKey,
              messageContent |-> item.messageContent,
              id |-> st.nAdded + 1, late |-> st.shuttingDown,
              busy |-> st.Qprocessing # 0]
      s1 == [st EXCEPT !.pool = <<opt>> \o @, !.nAdded = @ + 1]
  IN  process(s1)

\* dataq.add(item)
add(st, item) ==
  LET opt == [messageKey |-> item.messageKey,
              messageContent |-> item.messageContent,
              id |-> st.nAdded + 1, late |-> st.shuttingDown,
              busy |-> st.Qprocessing # 0]
      s1 == [st EXCEPT !.pool = Append(@, opt), !.nAdded = @ + 1]
  IN  process(s1)

\* _onMessage: the queued message kinds
queuedMessages == {"config", "query", "command", "status", "shortPoll",
                   "longPoll"}

\* a change of messageKeyStep: delete emits the event and leaves the shutdown
\* flag alone
messageKeyStepDeleteKeepsRunning(st, messageKey, messageContent) ==
  CASE messageKey = "result" -> _onResult(st, messageContent)
    [] messageKey = "stop" ->
         emit([st EXCEPT !.shuttingDown = TRUE], "stop", <<>>)
    [] messageKey = "delete" -> emit(st, "delete", <<>>)
    [] OTHER ->
         IF messageKey \in queuedMessages
         THEN add(st, [messageKey |-> messageKey,
                       messageContent |-> messageContent])
         ELSE st

\* _onMessage: the body of Object.keys(message).forEach for one key
messageKeyStep(st, messageKey, messageContent) ==
  CASE messageKey = "result" -> _onResult(st, messageContent)
    [] messageKey = "stop" ->
         emit([st EXCEPT !.shuttingDown = TRUE], "stop", <<>>)
    [] messageKey = "delete" ->
         emit([st EXCEPT !.shuttingDown = TRUE], "delete", <<>>)
    [] OTHER ->
         IF messageKey \in queuedMessages
         THEN add(st, [messageKey |-> messageKey,
                       messageContent |-> messageContent])
         ELSE st

\* Interface._onMessage(message); message is the sequence of the keys of the
\* parsed object other than node, each with its content
RECURSIVE messageKeys(_, _)
messageKeys(st, message) ==
  IF message = <<>> \/ st.thrown THEN st
  ELSE messageKeys(messageKeyStep(st, Head(message).key,
                                  Head(message).content),
                   Tail(message))
_onMessage(st, message) ==
  messageKeys(emit(st, "messageReceived", message), message)

(***************************************************************************)
(* What the remote counterpart may send on the node server's topic.        *)
(***************************************************************************)
Key(k, c) == [key |-> k, content |-> c]
AddNodeResult(a, ok, reason) ==
  Key("result", [addnode |-> [success |-> ok, reason |-> reason,
                              address |-> a],
                 profileNum |-> "1"])
RemoveNodeResult(a) ==
  Key("result", [removenode |-> [success |-> TRUE, reason |-> "removed",
                                 address |-> a],
                 profileNum |-> "1"])

QueuedKeys ==
  {Key("config", c) : c \in Snapshots}
  \cup {Key("query", [address |-> a]) : a \in Addrs}
  \cup {Key("status", [address |-> "a1"])}
  \cup {Key("command", [address |-> "a1", cmd |-> c]) : c \in CmdNames}
  \cup {Key("command", [address |-> "a2", cmd |-> "DON"])}
  \cup {Key("shortPoll", <<>>), Key("longPoll", <<>>)}
ShutdownKeys == {Key("stop", <<>>), Key("delete", <<>>)}
ResultKeys ==
  {AddNodeResult(a, TRUE, "added") : a \in Addrs}
  \cup {AddNodeResult(a, FALSE, "refused") : a \in Addrs}
  \cup {RemoveNodeResult("a1")}
InvalidKeys == {Key("bogus", <<>>)}

\* messages of one key, and some of several keys in the order of Object.keys
QueuedMessages ==
  {<<k>> : k \in QueuedKeys \cup ShutdownKeys \cup InvalidKeys}
  \cup {<<Key("shortPoll", <<>>), Key("stop", <<>>)>>,
        <<Key("delete", <<>>), Key("longPoll", <<>>)>>,
        <<Key("query", [address |-> "a1"]), Key("longPoll", <<>>)>>,
        <<Key("command", [address |-> "a1", cmd |-> "BAD"]),
          Key("shortPoll", <<>>)>>}
\* fewer of them, where what happens in the end is looked at: a snapshot, a
\* command with a handler, a command without one and a query, each with an
\* item behind it, and a stop
LiveQueuedMessages ==
  {<<Key("config", Snap1)>>,
   <<Key("command", [address |-> "a1", cmd |-> "DON"]),
     Key("shortPoll", <<>>)>>,
   <<Key("command", [address |-> "a1", cmd |-> "BAD"]),
     Key("shortPoll", <<>>)>>,
   <<Key("query", [address |-> "a1"]), Key("longPoll", <<>>)>>,
   <<Key("stop", <<>>)>>}
ResultMessages ==
  {<<k>> : k \in ResultKeys}
  \cup {<<Key("stop", <<>>), AddNodeResult("a2", FALSE, "refused")>>}
MixedMessages ==
  {<<Key("config", Snap1)>>,
   <<Key("command", [address |-> "a1", cmd |-> "DON"])>>,
   <<Key("command", [address |-> "a1", cmd |-> "DON"]),
     Key("shortPoll", <<>>)>>,
   <<Key("stop", <<>>)>>,
   <<Key("longPoll", <<>>), Key("delete", <<>>), Key("shortPoll", <<>>)>>,
   <<AddNodeResult("a1", TRUE, "added")>>,
   <<AddNodeResult("a1", FALSE, "refused"), Key("stop", <<>>)>>}

\* snapshots only, from the larger set
RegistryMessages == {<<Key("config", c)>> : c \in RegistrySnapshots}
\* one snapshot sent again and again, then either that one or another one
\* for the snapshots that reach the limit of the loop guard and pass it
LoopMessages(n) ==
  IF n < ConfigLoopLimit - 1 THEN {<<Key("config", Snap1)>>}
  ELSE {<<Key("config", Snap1)>>, <<Key("config", Snap3)>>}

\* snapshots for the devices whose drivers the hosting application sets
NodeMessages == {<<Key("config", Snap1)>>, <<Key("config", Snap5)>>}
\* what the hosting application passes to setDriver and reportDriver: a
\* driver of either uom or a name that is no driver, a value of each type,
\* and report, forceReport and uom (0 is null)
DriverNames == {"ST", "GV1", "XX"}
DriverValues == {BoolV(TRUE), BoolV(FALSE), NumV(0), NumV(12), StrV("x")}
DriverOptions == {<<TRUE, FALSE, 0>>, <<FALSE, FALSE, 0>>, <<TRUE, TRUE, 0>>,
                  <<TRUE, FALSE, OtherUom>>}

\* the timeouts the hosting application passes to sendMessageAsync
Timeouts == {DefaultTimeout, 0}

(***************************************************************************)
(* The event loop: a transport or timer callback starts only when the      *)
(* promise continuations and the process.nextTick callbacks queued by the  *)
(* turns before it have all run.                                           *)
(***************************************************************************)
ContinuationReady(h) == handled[h].state \in {"fulfilled", "rejected"}
ResumeReady(c) ==
  /\ calls[c].state = "waiting"
  /\ calls[calls[c].waitsOn].state \in {"resolved", "rejected"}
Quiescent ==
  /\ ticks = 0
  /\ \A h \in 1..Len(handled) : ~ContinuationReady(h)
  /\ \A c \in 1..Len(calls) : ~ResumeReady(c)

(***************************************************************************)
(* The transport's connect and message handlers (_mqttStart).              *)
(***************************************************************************)
\* this._mqttTopicPolyglotConnection and this._mqttTopic
mqttTopicPolyglotConnection == "udi/polyglot/connections/polyglot"
mqttTopic == "udi/polyglot/ns/" \o ProfileNumStr

\* a change of the connect handler: mqttConnected is emitted first
onConnectEmitsFirst(st) ==
  LET s1 == [st EXCEPT !.mqttClientConnected = TRUE,
                       !.subscribed = @ \cup {mqttTopicPolyglotConnection,
                                              mqttTopic}]
      s2 == emit(s1, "mqttConnected", <<>>)
  IN  _sendMessage(s2, [connected |-> TRUE], TRUE)

\* the handler of the client's connect event
onConnect(st) ==
  LET s1 == [st EXCEPT !.mqttClientConnected = TRUE]
      s2 == [s1 EXCEPT !.subscribed = @ \cup {mqttTopicPolyglotConnection}]
      s3 == [s2 EXCEPT !.subscribed = @ \cup {mqttTopic}]
      s4 == _sendMessage(s3, [connected |-> TRUE], TRUE)
  IN  emit(s4, "mqttConnected", <<>>)

\* what arrives with the client's message event: nothing (length 0), a text
\* JSON.parse rejects, or the text of an object with a node property, a
\* connected property and the other keys (body)
EmptyPayload == [kind |-> "empty"]
UnparsablePayload == [kind |-> "unparsable"]
Payload(node, connected, body) ==
  [kind |-> "json", node |-> node, connected |-> connected, body |-> body]

\* a change of the message handler: the node property is not looked at
onMessageAnyNode(st, topic, message) ==
  IF message.kind # "json" THEN st
  ELSE LET s1 == IF topic = mqttTopicPolyglotConnection
                 THEN [st EXCEPT !.mqttPolyglotConnected = message.connected]
                 ELSE st
       IN  IF topic = mqttTopic
           THEN [_onMessage(s1, message.body) EXCEPT !.thrown = FALSE]
           ELSE s1

\* the handler of the client's message event; an exception of JSON.parse or
\* of _onMessage is caught and logged
onMessage(st, topic, message) ==
  IF message.kind = "empty" THEN st
  ELSE IF message.kind = "unparsable" THEN st
  ELSE IF message.node = "polyglot"
       THEN LET s1 == IF topic = mqttTopicPolyglotConnection
                      THEN [st EXCEPT
                              !.mqttPolyglotConnected = message.connected]
                      ELSE st
            IN  IF topic = mqttTopic
                THEN [_onMessage(s1, message.body) EXCEPT !.thrown = FALSE]
                ELSE s1
       ELSE st

\* what arrives and is not from the remote counterpart, or is empty: an
\* empty message, a text that is no JSON, the announcement of this node
\* server itself, and messages another node publishes: its presence, a stop,
\* a snapshot, a result
IgnoredMessages ==
  {EmptyPayload, UnparsablePayload,
   Payload(ProfileNumStr, TRUE, <<>>),
   Payload("2", FALSE, <<Key("stop", <<>>)>>),
   Payload("2", TRUE, <<Key("config", Snap3)>>),
   Payload("2", FALSE, <<AddNodeResult("a1", TRUE, "added")>>)}

(***************************************************************************)
(* Actions: the transport's callbacks (_mqttStart).                        *)
(***************************************************************************)
Lifecycle(to) ==
  /\ Quiescent
  /\ nTransport < MaxTransport
  /\ nTransport' = nTransport + 1
  /\ socket' = to
  /\ UNCHANGED <<nMsgs, presence, api, nIgnored>>

\* this._mqttClient.on('connect', ...)
MqttConnect ==
  /\ socket \in {"connecting", "reconnecting"}
  /\ Lifecycle("connected")
  /\ Commit(onConnect(State))

\* this._mqttClient.on('reconnect', ...): the client starts a reconnect
MqttReconnect ==
  /\ socket = "closed"
  /\ Lifecycle("reconnecting")
  /\ Commit(emit([State EXCEPT !.mqttClientConnected = TRUE],
                 "mqttReconnect", <<>>))

\* this._mqttClient.on('offline', ...): the client went offline after a close
MqttOffline ==
  /\ socket = "closed"
  /\ Lifecycle("closed")
  /\ Commit(emit([State EXCEPT !.mqttClientConnected = FALSE],
                 "mqttOffline", <<>>))

\* this._mqttClient.on('close', ...): the connection, or an attempt, ended
MqttClose ==
  /\ socket \in {"connecting", "connected", "reconnecting"}
  /\ Lifecycle("closed")
  /\ Commit(emit([State EXCEPT !.mqttClientConnected = FALSE],
                 "mqttClose", <<>>))

\* this._mqttClient.on('end', ...): the client was ended for good
MqttEnd ==
  /\ socket # "ended"
  /\ Lifecycle("ended")
  /\ Commit(emit([State EXCEPT !.mqttClientConnected = FALSE],
                 "mqttEnd", <<>>))

\* this._mqttClient.on('message', ...), a message of the remote counterpart
\* on the presence topic
MqttPresence ==
  /\ Quiescent
  /\ socket = "connected"
  /\ mqttTopicPolyglotConnection \in subscribed
  /\ \E connected \in BOOLEAN :
       /\ presence' = connected
       /\ Commit(onMessage(State, mqttTopicPolyglotConnection,
                           Payload("polyglot", connected, <<>>)))
  /\ UNCHANGED <<socket, nTransport, nMsgs, api, nIgnored>>

\* this._mqttClient.on('message', ...), a message of the remote counterpart
\* on the node server's topic, drawn from messages; an exception of
\* _onMessage is caught here
Receive(messages, max) ==
  /\ Quiescent
  /\ socket = "connected"
  /\ nMsgs < max
  /\ nMsgs' = nMsgs + 1
  /\ mqttTopic \in subscribed
  /\ \E message \in messages :
       Commit(onMessage(State, mqttTopic, Payload("polyglot", FALSE, message)))
  /\ UNCHANGED <<socket, presence, nTransport, api, nIgnored>>
MqttMessage == Receive(MixedMessages, MaxMsgs)
MqttQueuedMessage == Receive(QueuedMessages, MaxMsgs)
MqttResultMessage == Receive(ResultMessages, MaxResults)
MqttLiveResultMessage == Receive(ResultMessages, MaxLiveResults)
MqttLiveQueuedMessage == Receive(LiveQueuedMessages, MaxMsgs)
MqttRegistryMessage == Receive(RegistryMessages, MaxMsgs)
MqttNodeMessage == Receive(NodeMessages, MaxNodeConfigs)
MqttLoopMessage == Receive(LoopMessages(nMsgs), MaxLoop)

\* this._mqttClient.on('message', ...), an empty message, one that does not
\* parse, or one whose node is not 'polyglot'
MqttIgnored ==
  /\ Quiescent
  /\ socket = "connected"
  /\ nIgnored < MaxIgnored
  /\ nIgnored' = nIgnored + 1
  /\ \E topic \in subscribed, message \in IgnoredMessages :
       Commit(onMessage(State, topic, message))
  /\ UNCHANGED <<socket, presence, nTransport, nMsgs, api>>

(***************************************************************************)
(* Actions: the queue's asynchronous steps.                                *)
(***************************************************************************)
\* the promise of a command handler of the hosting application settles
HandlerSettles ==
  /\ \E h \in 1..Len(handled), outcome \in {"fulfilled", "rejected"} :
       /\ handled[h].state = "pending"
       /\ Commit([State EXCEPT !.handled[h].state = outcome,
                                !.handled[h].outcome = outcome,
                                !.handled[h].endedLate = shuttingDown])
  /\ UNCHANGED <<socket, presence, nTransport, nMsgs, api, nIgnored>>

\* dataq.process(): .catch(...).then(...) of a settled invocation
QueueContinuation ==
  /\ \E h \in 1..Len(handled) :
       /\ ContinuationReady(h)
       /\ Commit(processThen(State, h))
  /\ UNCHANGED <<socket, presence, nTransport, nMsgs, api, nIgnored>>

\* dataq.process(): process.nextTick(function() { self.process(); })
NextTick ==
  /\ ticks > 0
  /\ Commit(process([State EXCEPT !.ticks = @ - 1]))
  /\ UNCHANGED <<socket, presence, nTransport, nMsgs, api, nIgnored>>

(***************************************************************************)
(* Actions: the correlation table.                                         *)
(***************************************************************************)
\* the hosting application calls addNode(node)
AddNode ==
  /\ Len(calls) < MaxAddNode
  /\ \E a \in Addrs : Commit(addNode(State, a))
  /\ UNCHANGED <<socket, presence, nTransport, nMsgs, api, nIgnored>>

\* the hosting application calls sendMessageAsync with a timeout of its own
SendMessageAsync ==
  /\ Len(calls) < MaxCalls
  /\ \E a \in Addrs, timeout \in Timeouts :
       Commit(sendMessageAsync(State, KeyOf(a),
                               [addnode |-> [nodes |-> <<[address |-> a]>>]],
                               timeout))
  /\ UNCHANGED <<socket, presence, nTransport, nMsgs, api, nIgnored>>

\* the hosting application calls restart(): this.sendMessage({restart: {}})
Restart ==
  /\ Len(sent) < MaxSent
  /\ Len(api) < MaxApi
  /\ api' = Append(api, Call("restart", "", "",
                             [t |-> "undefined", v |-> ""], FALSE, FALSE, 0))
  /\ Commit(sendMessage(State, [restart |-> <<>>]))
  /\ UNCHANGED <<socket, presence, nTransport, nMsgs, nIgnored>>

\* the hosting application calls setDriver on a registered node
SetDriver ==
  /\ Len(api) < MaxNodeCalls
  /\ \E a \in DOMAIN nodes, driver \in DriverNames, value \in DriverValues,
        o \in DriverOptions :
       /\ api' = Append(api, Call("setDriver", a, driver, value, o[1], o[2],
                                  o[3]))
       /\ Commit(setDriver(State, a, driver, value, o[1], o[2], o[3]))
  /\ UNCHANGED <<socket, presence, nTransport, nMsgs, nIgnored>>

\* the hosting application calls reportDriver on a registered node
ReportDriver ==
  /\ Len(api) < MaxNodeCalls
  /\ \E a \in DOMAIN nodes, driver \in DriverNames, forceReport \in BOOLEAN :
       /\ api' = Append(api, Call("reportDriver", a, driver,
                                  [t |-> "undefined", v |-> ""], FALSE,
                                  forceReport, 0))
       /\ Commit(reportDriver(State, a, driver, forceReport))
  /\ UNCHANGED <<socket, presence, nTransport, nMsgs, nIgnored>>

\* sendMessageAsync resumes after await ...promise, once that promise settled
ResumeSendMessageAsync ==
  /\ \E c \in 1..Len(calls) :
       /\ ResumeReady(c)
       /\ Commit(issue(State, c))
  /\ UNCHANGED <<socket, presence, nTransport, nMsgs, api, nIgnored>>

\* sendMessageAsync: the setTimeout callback of call c; on a promise that
\* has settled its reject(err) changes nothing, and this step is left out
TimeoutFires ==
  /\ Quiescent
  /\ \E c \in 1..Len(calls) :
       /\ calls[c].timer
       /\ calls[c].state = "pending"
       /\ Commit(reject([State EXCEPT !.calls[c].timer = FALSE], c,
                        TimeoutError))
  /\ UNCHANGED <<socket, presence, nTransport, nMsgs, api, nIgnored>>

\* _detectConfigLoop: the setTimeout callback, _this._configCounter--
ConfigLoopTimer ==
  /\ Quiescent
  /\ configTimers > 0
  /\ Commit([State EXCEPT !.configCounter = @ - 1, !.configTimers = @ - 1])
  /\ UNCHANGED <<socket, presence, nTransport, nMsgs, api, nIgnored>>

(***************************************************************************)
(* Specifications.                                                         *)
(***************************************************************************)
\* the whole interface: queue, shutdown and correlation together
Next ==
  \/ MqttConnect
  \/ MqttPresence
  \/ MqttMessage
  \/ HandlerSettles
  \/ QueueContinuation
  \/ NextTick
  \/ AddNode
  \/ ResumeSendMessageAsync
  \/ TimeoutFires
  \/ ConfigLoopTimer

Spec == Init /\ [][Next]_vars

\* the inbound sequencer: every queued kind of message, stop and delete
NextQueue ==
  \/ MqttConnect
  \/ MqttPresence
  \/ MqttQueuedMessage
  \/ HandlerSettles
  \/ QueueContinuation
  \/ NextTick
  \/ ConfigLoopTimer

SpecQueue == Init /\ [][NextQueue]_vars

\* the inbound sequencer with the event loop doing its work and the handlers
\* of the hosting application settling: a promise callback that is ready
\* runs, and a nextTick callback that is scheduled runs
NextQueueLive ==
  \/ MqttConnect
  \/ MqttLiveQueuedMessage
  \/ HandlerSettles
  \/ QueueContinuation
  \/ NextTick
  \/ ConfigLoopTimer

SpecQueueLive ==
  /\ Init /\ [][NextQueueLive]_vars
  /\ WF_vars(HandlerSettles)
  /\ WF_vars(QueueContinuation)
  /\ WF_vars(NextTick)

\* the correlation table: presence, sendMessageAsync, results and timeouts
NextCorr ==
  \/ MqttConnect
  \/ MqttPresence
  \/ MqttResultMessage
  \/ SendMessageAsync
  \/ ResumeSendMessageAsync
  \/ TimeoutFires

SpecCorr == Init /\ [][NextCorr]_vars

\* the correlation table with the event loop doing its work: a continuation
\* whose awaited promise has settled runs, and a timer that is set fires
NextCorrLive ==
  \/ MqttConnect
  \/ MqttPresence
  \/ MqttLiveResultMessage
  \/ SendMessageAsync
  \/ ResumeSendMessageAsync
  \/ TimeoutFires

SpecCorrLive ==
  /\ Init /\ [][NextCorrLive]_vars
  /\ WF_vars(ResumeSendMessageAsync)
  /\ WF_vars(TimeoutFires)

\* the transport session: lifecycle events, presence and plain sends
NextConn ==
  \/ MqttConnect
  \/ MqttReconnect
  \/ MqttOffline
  \/ MqttClose
  \/ MqttEnd
  \/ MqttPresence
  \/ MqttIgnored
  \/ Restart

SpecConn == Init /\ [][NextConn]_vars

\* the message handler: messages of the remote counterpart and of others,
\* with a registry, a queue and a correlation table that are not empty
NextInbound ==
  \/ MqttConnect
  \/ MqttPresence
  \/ MqttNodeMessage
  \/ MqttIgnored
  \/ QueueContinuation
  \/ NextTick
  \/ ConfigLoopTimer
  \/ AddNode
  \/ ResumeSendMessageAsync
  \/ TimeoutFires

SpecInbound == Init /\ [][NextInbound]_vars

\* the snapshot reconciliation alone
NextRegistry ==
  \/ MqttConnect
  \/ MqttRegistryMessage
  \/ QueueContinuation
  \/ NextTick
  \/ ConfigLoopTimer

SpecRegistry == Init /\ [][NextRegistry]_vars

\* the drivers of the registered devices
NextNode ==
  \/ MqttConnect
  \/ MqttPresence
  \/ MqttNodeMessage
  \/ QueueContinuation
  \/ NextTick
  \/ ConfigLoopTimer
  \/ SetDriver
  \/ ReportDriver

SpecNode == Init /\ [][NextNode]_vars

\* the loop guard: more snapshots than its limit
NextLoop ==
  \/ MqttConnect
  \/ MqttLoopMessage
  \/ QueueContinuation
  \/ NextTick
  \/ ConfigLoopTimer

SpecLoop == Init /\ [][NextLoop]_vars

(***************************************************************************)
(* Properties of the inbound sequencer (SpecQueue).                        *)
(***************************************************************************)
Handled == 1..Len(handled)
InFlight == {h \in Handled : handled[h].state # "done"}

\* C1: the dataProcessor is invoked once per item, in the order the items
\* were added: the k-th invocation is for the k-th item added, and the items
\* still in the pool are the remaining ones, in their order of arrival, so
\* that no item is skipped, duplicated or reordered
C1_ArrivalOrder ==
  /\ \A h \in Handled : handled[h].id = h
  /\ \A j \in 1..Len(pool) : pool[j].id = Len(handled) + j
  /\ Len(handled) + Len(pool) = nAdded

\* C1 witness: three or more items have all been handled, one added while
\* the queue was idle and one added while it was busy
C1_Witness ==
  /\ nAdded >= 3
  /\ Len(handled) = nAdded
  /\ \E i \in Handled : handled[i].busy
  /\ \E j \in Handled : ~handled[j].busy

\* C2: Qprocessing is 0 or 1 and counts the invocations whose promise the
\* queue has not yet seen settle; every invocation but the last is over
C2_SingleFlight ==
  /\ Qprocessing \in {0, 1}
  /\ Cardinality(InFlight) = Qprocessing
  /\ \A h \in Handled : h < Len(handled) => handled[h].state = "done"

\* C2 witness: a command handler is pending and two further items, added
\* meanwhile, wait in the pool
C2_Witness ==
  /\ \E h \in Handled :
       handled[h].messageKey = "command" /\ handled[h].state = "pending"
  /\ Len(pool) >= 2

\* C7: once the queue has seen an invocation end in a rejection, Qprocessing
\* counts only later invocations, the items behind the failing one are
\* invoked in order, and items still waiting have an invocation in flight
\* or a process() call scheduled
C7_RejectionDoesNotStop ==
  \A h \in Handled :
    (handled[h].outcome = "rejected" /\ handled[h].state = "done") =>
      /\ Qprocessing =
           Cardinality({k \in Handled : k > h /\ handled[k].state # "done"})
      /\ \A k \in Handled : k > h => handled[k].id = k
      /\ pool # <<>> => (Qprocessing = 1 \/ ticks > 0)

\* C7 witness: a handler of the hosting application has rejected, the queue
\* has seen it, and an item that was waiting behind was dispatched
C7_Witness ==
  \E h \in Handled, k \in Handled :
    /\ handled[h].disp = "dispatched" /\ handled[h].outcome = "rejected"
    /\ handled[h].state = "done"
    /\ k > h /\ handled[k].busy /\ handled[k].disp = "dispatched"

\* C9: an item added after the shutdown flag was set is dequeued and dropped
\* (nothing emitted, nothing published, no handler called), and only an
\* invocation that started with the flag set is dropped
C9_DroppedAfterShutdown ==
  \A h \in Handled :
    /\ handled[h].late =>
         /\ handled[h].disp = "dropped"
         /\ handled[h].emitted = 0
         /\ handled[h].published = 0
    /\ handled[h].disp = "dropped" <=> handled[h].startedLate

\* C9 witness: a command handler started before the stop or delete, settled
\* after it, and an item added after the stop or delete was dropped
C9_Witness ==
  \E g \in Handled, h \in Handled :
    /\ handled[g].disp = "dispatched" /\ ~handled[g].startedLate
    /\ handled[g].endedLate /\ handled[g].state = "done"
    /\ handled[h].late /\ handled[h].disp = "dropped"

\* the step invokes _onMessageQueued; TheItem is the invocation
Invokes == Len(handled') = Len(handled) + 1
TheItem == handled'[Len(handled')]
\* the invocation called no handler of a device: no such device, or no such
\* command
NoHandler(i) == i.disp \in {"nonode", "nocommand"}

\* C27: an invocation for a query, status or command whose address is not in
\* the registry calls no handler (nothing runs, is emitted or published, and
\* the invocation is fulfilled); one for a command whose name is not in the
\* commands of the device calls no handler and is rejected, which the queue
\* catches; the registry is as before; and once the queue has seen such an
\* invocation end, the item behind it has been invoked or a process() call
\* is scheduled
C27_UnknownTargetSkipped ==
  [][/\ (/\ Invokes
         /\ TheItem.messageKey \in {"query", "status", "command"}
         /\ ~TheItem.startedLate)
          => LET a == TheItem.messageContent.address IN
             /\ nodes' = nodes
             /\ a \notin DOMAIN nodes
                  => /\ TheItem.disp = "nonode"
                     /\ TheItem.state = "fulfilled"
                     /\ TheItem.emitted = 0 /\ TheItem.published = 0
             /\ (/\ a \in DOMAIN nodes
                 /\ TheItem.messageKey = "command"
                 /\ TheItem.messageContent.cmd \notin nodes[a].commands)
                  => /\ TheItem.disp = "nocommand"
                     /\ TheItem.state = "rejected"
                     /\ TheItem.emitted = 0 /\ TheItem.published = 0
             /\ TheItem.disp = "dispatched"
                  => /\ a \in DOMAIN nodes
                     /\ TheItem.messageKey = "command"
                          => TheItem.messageContent.cmd \in nodes[a].commands
     /\ \A h \in 1..Len(handled') :
          (NoHandler(handled'[h]) /\ handled'[h].state = "done")
            => \/ Len(handled') > h
               \/ pool' = <<>>
               \/ ticks' > 0]_vars

\* C27 witness: a command whose name the device does not have was rejected,
\* the queue has seen it, and the item that waited behind it was dispatched;
\* and a query for an address without a device called nothing
C27_Witness ==
  /\ \E h \in Handled :
       /\ handled[h].disp = "nocommand" /\ handled[h].outcome = "rejected"
       /\ handled[h].state = "done"
       /\ h + 1 \in Handled
       /\ handled[h + 1].busy /\ handled[h + 1].disp = "dispatched"
  /\ \E g \in Handled :
       /\ handled[g].messageKey = "query" /\ handled[g].disp = "nonode"
       /\ handled[g].state = "done"
  /\ DOMAIN nodes = {"a1"}

\* the positions of the stop and delete events among events ev
Stops(ev) == {i \in 1..Len(ev) : ev[i].name \in {"stop", "delete"}}

\* C28: the shutdown flag, once set, stays set, and it is set when a stop or
\* delete event has been emitted; no config or poll event comes after a stop
\* or delete event; and an invocation that starts after one, for an item
\* added before or after it, is dropped: it calls no handler, emits nothing
\* and publishes nothing
C28_NothingAfterShutdown ==
  [][/\ shuttingDown => shuttingDown'
     /\ Stops(events') # {} => shuttingDown'
     /\ \A i \in Stops(events'), j \in 1..Len(events') :
          events'[j].name \in {"config", "poll"} => j < i
     /\ Invokes =>
          /\ Stops(events) # {} => TheItem.startedLate
          /\ TheItem.startedLate
               => /\ TheItem.disp = "dropped"
                  /\ TheItem.state = "fulfilled"
                  /\ TheItem.emitted = 0 /\ TheItem.published = 0
                  /\ nodes' = nodes /\ config' = config]_vars

\* C28 witness: while a command handler was running a poll item was added,
\* then the stop or delete arrived; the handler has settled and the poll
\* item, which waited in the pool, was dropped
C28_Witness ==
  \E g \in Handled, h \in Handled :
    /\ g < h
    /\ handled[g].messageKey = "command" /\ handled[g].disp = "dispatched"
    /\ handled[g].endedLate
    /\ handled[h].messageKey \in {"shortPoll", "longPoll"}
    /\ ~handled[h].late /\ handled[h].busy
    /\ handled[h].startedLate /\ handled[h].disp = "dropped"
    /\ handled[h].state = "done"
    /\ Stops(events) # {}

\* C33: whenever the pool is not empty, an invocation is in flight or a
\* process() call is scheduled; when every handler settles, again and again
\* every item added so far has been invoked, and in the end the pool is
\* empty and stays so
C33_QueueDrains ==
  /\ [](pool # <<>> => (InFlight # {} \/ ticks > 0))
  /\ []<>(Len(handled) = nAdded)
  /\ <>[](pool = <<>>)

\* C33 witness: while a command handler was pending two more items arrived;
\* the handler has settled and all three items have been invoked, the last
\* one from a scheduled process() call, and the pool is empty
C33_Witness ==
  /\ nAdded >= 3
  /\ Len(handled) = nAdded
  /\ pool = <<>> /\ ticks = 0 /\ InFlight = {}
  /\ \E h \in Handled :
       /\ handled[h].messageKey = "command" /\ handled[h].disp = "dispatched"
       /\ h + 2 \in Handled
       /\ handled[h + 1].busy /\ handled[h + 2].busy

(***************************************************************************)
(* Properties of the correlation table (SpecCorr).                         *)
(***************************************************************************)
Calls == 1..Len(calls)
Settled(c) == calls[c].state \in {"resolved", "rejected"}
Outstanding(c) == calls[c].published /\ calls[c].state = "pending"

\* the message given to _onMessage in a step that delivers one: the argument
\* of the messageReceived event the step emits first
Delivers == nMsgs' # nMsgs
Delivered == events'[Len(events) + 1].arg
IsAddNodeResult(k) == k.key = "result" /\ "addnode" \in DOMAIN k.content

\* C3: for every key, at most one request is published and not yet settled
C3_OneOutstandingPerKey ==
  \A k \in Keys :
    Cardinality({c \in Calls : calls[c].key = k /\ Outstanding(c)}) <= 1

\* C4: of two calls made for the same key, the later one has published its
\* message only if the promise of the earlier one has settled
C4_SecondAfterFirstSettled ==
  \A c \in Calls, d \in Calls :
    (c < d /\ calls[c].key = calls[d].key /\ calls[d].published)
      => Settled(c)

\* C5: when a result message is delivered, the pending request registered
\* under the key of its addnode entry is resolved with the reason string if
\* success is true and rejected with it otherwise, and every other call of
\* sendMessageAsync is left as it was (no registered request, or a command
\* class that is not tracked)
C5_ResultSettlesTracked ==
  [][Delivers =>
       LET m == Delivered
           answers(c) ==
             {i \in 1..Len(m) :
                /\ IsAddNodeResult(m[i])
                /\ tracking[KeyOf(m[i].content.addnode.address)] = c
                /\ calls[c].state = "pending"}
       IN  \A c \in Calls :
             IF answers(c) # {}
             THEN \A i \in answers(c) :
                    LET r == m[i].content.addnode IN
                    /\ calls'[c].state =
                         (IF r.success THEN "resolved" ELSE "rejected")
                    /\ calls'[c].value = ReasonValue(r.reason)
             ELSE calls'[c] = calls[c]]_vars

\* C5 witness: one request was resolved with the reason of a successful
\* result and one was rejected with the reason of a failed result
C5_Witness ==
  /\ \E c \in Calls : /\ calls[c].state = "resolved"
                      /\ calls[c].value = ReasonValue("added")
  /\ \E d \in Calls : /\ calls[d].state = "rejected"
                      /\ calls[d].value = ReasonValue("refused")

\* C6: a published request with a timeout keeps its timer while it is
\* pending; one rejected by that timer carries an Error named 'timeout', one
\* rejected by a failed result carries the reason string, which has no such
\* name, and one rejected for lack of connection was never published and
\* carries the Error 'Polyglot not connected'
C6_TimeoutDistinguishable ==
  \A c \in Calls :
    /\ (Outstanding(c) /\ calls[c].timeout # 0) => calls[c].timer
    /\ calls[c].state = "rejected" =>
         /\ (calls[c].published /\ calls[c].timeout # 0 /\ ~calls[c].timer)
              => /\ calls[c].value.type = "Error"
                 /\ calls[c].value.name = "timeout"
         /\ (calls[c].published /\ (calls[c].timeout = 0 \/ calls[c].timer))
              => /\ calls[c].value.type = "string"
                 /\ calls[c].value.name # "timeout"
         /\ ~calls[c].published
              => /\ calls[c].value = NotConnectedError
                 /\ calls[c].value.name # "timeout"

\* C6 witness: one request timed out, one was rejected by a failed result and
\* one was rejected because Polyglot was not connected
C6_Witness ==
  /\ \E c \in Calls : /\ calls[c].state = "rejected"
                      /\ calls[c].timeout = DefaultTimeout
                      /\ calls[c].value.name = "timeout"
  /\ \E c \in Calls : /\ calls[c].state = "rejected"
                      /\ calls[c].value.type = "string"
  /\ \E c \in Calls : /\ calls[c].state = "rejected"
                      /\ calls[c].value = NotConnectedError

\* call c has been made, with a timeout that is not 0
Timed(c) == c \in Calls /\ calls[c].timeout # 0
\* the calls made before call c for the same key
Earlier(c) == {b \in 1..(c - 1) : calls[b].key = calls[c].key}

\* C29 as stated: every call of sendMessageAsync with a timeout that is not 0
\* settles in the end
C29_EveryTimedCallSettles ==
  \A c \in 1..MaxCalls : Timed(c) ~> (c \in Calls /\ Settled(c))

\* C29: every call of sendMessageAsync with a timeout that is not 0 settles
\* in the end when the calls made before it for the same key have a timeout
\* that is not 0 as well, however many of them are pending and whichever of
\* them the key's entry of the table refers to
C29_TimedCallSettlesBehindTimedCalls ==
  \A c \in 1..MaxCalls :
    (Timed(c) /\ \A b \in Earlier(c) : Timed(b))
      ~> (c \in Calls /\ Settled(c))

\* C29 witness: two calls for one key waited for the same earlier call and
\* were published one after the other, so that the entry of the key refers
\* to the later one; the earlier of the two was rejected by its timer while
\* the later one is still pending
C29_Witness ==
  \E c \in Calls, d \in Calls :
    /\ c < d /\ calls[c].key = calls[d].key
    /\ calls[c].waitsOn # 0 /\ calls[d].waitsOn = calls[c].waitsOn
    /\ calls[c].published /\ calls[d].published
    /\ tracking[calls[c].key] = d
    /\ calls[c].timeout # 0
    /\ calls[c].state = "rejected" /\ calls[c].value = TimeoutError
    /\ calls[d].state = "pending"

\* C31: the remote counterpart answers the requests for a key in the order
\* they were published; as long as it has sent no more results for the key
\* than requests were published, the n-th result for the key answers the
\* n-th request published for it, and a call that this result settles is the
\* call that published that request
C31_OnlyOwnResultSettles ==
  [][Delivers =>
       LET m == Delivered IN
       \A i \in 1..Len(m) :
         IsAddNodeResult(m[i]) =>
           LET a == m[i].content.addnode.address
               IsSent(e) ==
                 /\ e.name = "messageSent"
                 /\ "addnode" \in DOMAIN e.arg
                 /\ e.arg.addnode.nodes[1].address = a
               IsResult(e) ==
                 /\ e.name = "messageReceived"
                 /\ \E j \in 1..Len(e.arg) :
                      /\ IsAddNodeResult(e.arg[j])
                      /\ e.arg[j].content.addnode.address = a
               sends == {x \in 1..Len(events) : IsSent(events[x])}
               results == {r \in 1..Len(events) : IsResult(events[r])}
               n == Cardinality(results) + 1
               solicited ==
                 \A r \in results \cup {Len(events) + 1} :
                   Cardinality({q \in results : q < r}) + 1
                     <= Cardinality({x \in sends : x < r})
               rank(c) ==
                 Cardinality({b \in Calls :
                                /\ calls[b].key = KeyOf(a)
                                /\ calls[b].published
                                /\ calls[b].sentAt <= calls[c].sentAt})
           IN  solicited =>
                 \A c \in Calls :
                   (calls[c].key = KeyOf(a)
                      /\ calls'[c].state # calls[c].state)
                     => (calls[c].published /\ rank(c) = n)]_vars

(***************************************************************************)
(* Properties of the whole interface (Spec).                               *)
(***************************************************************************)
\* C8: in the step that delivers a message, each stop or delete key of the
\* message sets the shutdown flag and emits its event while the items waiting
\* in the pool stay there and no invocation starts for them, and each result
\* key settles the pending request registered for it while every handler in
\* flight stays in flight
C8_ImmediateKinds ==
  [][Delivers =>
       LET m == Delivered IN
       \A i \in 1..Len(m) :
         /\ m[i].key \in {"stop", "delete"} =>
              /\ shuttingDown'
              /\ \E e \in (Len(events) + 1)..Len(events') :
                   events'[e].name = m[i].key
              /\ Len(pool') >= Len(pool)
              /\ \A j \in 1..Len(pool) : pool'[j] = pool[j]
              /\ pool # <<>> => handled' = handled
         /\ IsAddNodeResult(m[i]) =>
              LET c == tracking[KeyOf(m[i].content.addnode.address)] IN
              (c # 0 /\ calls[c].state = "pending") =>
                /\ calls'[c].state =
                     (IF m[i].content.addnode.success THEN "resolved"
                      ELSE "rejected")
                /\ \A h \in Handled :
                     handled[h].state = "pending" =>
                       handled'[h].state = "pending"]_vars

\* C30: in the step that delivers a message with a result key, _onMessage
\* raises no exception and every key of the message is handled: each queued
\* kind is added to the queue and each stop or delete emits its event
C30_ResultNeverRaises ==
  [][Delivers =>
       LET m == Delivered IN
       (\E i \in 1..Len(m) : m[i].key = "result") =>
         /\ ~_onMessage(State, m).thrown
         /\ nAdded' - nAdded
              = Cardinality({j \in 1..Len(m) : m[j].key \in queuedMessages})
         /\ \A j \in 1..Len(m) :
              m[j].key \in {"stop", "delete"} =>
                \E e \in (Len(events) + 2)..Len(events') :
                  events'[e].name = m[j].key]_vars

(***************************************************************************)
(* Properties of the transport session (SpecConn).                         *)
(***************************************************************************)
\* C10: isConnected() is true only if the socket is connected to the broker
\* and the last presence message reported the remote counterpart connected
C10_ConnectedOnlyIfBoth ==
  isConnected(State) => (socket = "connected" /\ presence)

\* the restart messages among the messages published
Restarts(published) ==
  {i \in 1..Len(published) : "restart" \in DOMAIN published[i].message}
\* the step is the call restart() of the hosting application
CallsRestart == Len(api') = Len(api) + 1 /\ api'[Len(api')].op = "restart"

\* C11: sendMessage called while isConnected() is false publishes nothing and
\* emits nothing, and no later step that is not a call of sendMessage
\* publishes the message; called while connected it publishes exactly one
\* message, whose node is the profile number as a string, and emits
\* messageSent with it
C11_PlainSendDroppedOrSentOnce ==
  [][/\ CallsRestart =>
          IF isConnected(State)
          THEN LET m == [restart |-> <<>>, node |-> ProfileNumStr] IN
               /\ sent' = Append(sent, [message |-> m, retain |-> FALSE,
                                        after |-> Len(events) + 1])
               /\ events' = Append(events, [name |-> "messageSent",
                                            arg |-> m])
          ELSE sent' = sent /\ events' = events
     /\ ~CallsRestart => Restarts(sent') = Restarts(sent)]_vars

\* C11 witness: of the calls of restart() made, one was made while not
\* connected and its message is still unpublished now that the connection
\* is back, and one made while connected was published
C11_Witness ==
  /\ Len(api) = 2
  /\ \A i \in 1..2 : api[i].op = "restart"
  /\ isConnected(State)
  /\ Cardinality(Restarts(sent)) = 1
  /\ "restart" \notin DOMAIN sent[Len(sent)].message

(***************************************************************************)
(* Properties of the snapshot reconciliation (SpecRegistry).               *)
(***************************************************************************)
\* the step runs _onConfig: _onMessageQueued is invoked for a config item and
\* dispatches it; Processed is the snapshot it is given
ProcessesConfig ==
  /\ Len(handled') = Len(handled) + 1
  /\ handled'[Len(handled')].messageKey = "config"
  /\ handled'[Len(handled')].disp = "dispatched"
Processed == handled'[Len(handled')].messageContent
\* the addresses of a snapshot's device list, without the profile prefix
AddressesOf(cfg) ==
  {slice5(cfg.newNodes[i].address) : i \in 1..Len(cfg.newNodes)}
\* the custom parameters of the cached config (none before the first one)
\* and of a snapshot
CachedParams == IF config = <<>> THEN <<>> ELSE config[1].customParams
ParamsDiffer(p, q) ==
  \/ DOMAIN p # DOMAIN q
  \/ \E k \in DOMAIN p \cap DOMAIN q : p[k] # q[k]

\* C12: when a snapshot B is processed, every device that is in the registry
\* before (after the snapshot A processed before it) and whose address is not
\* in B's device list is absent from the registry after
C12_AbsentDevicesRemoved ==
  [][ProcessesConfig =>
       \A a \in DOMAIN nodes :
         a \notin AddressesOf(Processed) => a \notin DOMAIN nodes']_vars

\* C13: when the snapshot processed is the one processed just before it, the
\* registry after is equal to the registry before, and the newParamsDetected
\* of the second application is false
C13_SameSnapshotIdempotent ==
  [][(/\ ProcessesConfig
      /\ config # <<>>
      /\ config[1].newNodes = Processed.newNodes
      /\ config[1].customParams = Processed.customParams)
       => /\ nodes' = nodes
          /\ config'[1].newParamsDetected = FALSE]_vars

\* C13 witness: the last two snapshots processed were the same one, devices
\* are registered and the cached config has newParamsDetected false
C13_Witness ==
  /\ Len(handled) >= 2
  /\ handled[Len(handled)].messageKey = "config"
  /\ handled[Len(handled) - 1].messageKey = "config"
  /\ handled[Len(handled)].messageContent
       = handled[Len(handled) - 1].messageContent
  /\ Cardinality(DOMAIN nodes) = 2
  /\ config[1].newParamsDetected = FALSE

\* C14: newParamsDetected of a processed snapshot is true exactly when its
\* custom parameters differ from those of the snapshot before it: a key
\* added, a key removed, or a value changed
C14_ParamsFlagIffDiffer ==
  [][ProcessesConfig =>
       (config'[1].newParamsDetected
          <=> ParamsDiffer(CachedParams, Processed.customParams))]_vars

(***************************************************************************)
(* Properties of the loop guard (SpecLoop).                                *)
(***************************************************************************)
\* the config events emitted in the step
ConfigEvents ==
  {i \in (Len(events) + 1)..Len(events') : events'[i].name = "config"}

\* C15: the counter is the number of snapshots whose 10-second timer has not
\* fired yet (those processed in the preceding 10 seconds) and is never
\* negative, so that it is 0 once every timer has fired; processing a
\* snapshot adds one to it, and the config event of that snapshot is
\* suppressed exactly when the counter, that snapshot included, exceeds 30
C15_LoopGuardWindow ==
  [][/\ configCounter' = configTimers'
     /\ configCounter' >= 0
     /\ ProcessesConfig =>
          /\ configCounter' = configCounter + 1
          /\ (ConfigEvents = {}) <=> (configCounter' > ConfigLoopLimit)]_vars

\* C15 witness: thirty snapshots were emitted, the 31st was suppressed, every
\* timer fired, and the 32nd was emitted again
C15_Witness ==
  /\ Len(handled) = ConfigLoopLimit + 2
  /\ \A h \in 1..ConfigLoopLimit : handled[h].emitted = 1
  /\ handled[ConfigLoopLimit + 1].emitted = 0
  /\ handled[ConfigLoopLimit + 2].emitted = 1
  /\ configCounter = 1

\* C16: a step that processes a snapshot caches that snapshot with its flag
\* and registers every entry of a declared class, tripped or not; it emits
\* exactly one config event, carrying the registry and the cached config with
\* the flag, when the loop guard is not tripped, and none when it is
C16_OneEventUnlessTripped ==
  [][ProcessesConfig =>
       LET cfg == Processed
           tripped == configCounter + 1 > ConfigLoopLimit
       IN  /\ config' = <<SetProp(cfg, "newParamsDetected",
                                  config'[1].newParamsDetected)>>
           /\ \A i \in 1..Len(cfg.newNodes) :
                cfg.newNodes[i].nodedef \in NodeDefIds
                  => slice5(cfg.newNodes[i].address) \in DOMAIN nodes'
           /\ IF tripped THEN ConfigEvents = {}
              ELSE /\ Cardinality(ConfigEvents) = 1
                   /\ \A e \in ConfigEvents :
                        /\ events'[e].arg.nodes = nodes'
                        /\ events'[e].arg.config = config'[1]]_vars

\* C16 witness: the 30th snapshot was emitted; the 31st, another snapshot,
\* was suppressed, and its second device and its parameters are in the
\* registry and in the cached config
C16_Witness ==
  /\ Len(handled) = ConfigLoopLimit + 1
  /\ handled[ConfigLoopLimit].emitted = 1
  /\ handled[ConfigLoopLimit].messageContent = Snap1
  /\ handled[ConfigLoopLimit + 1].emitted = 0
  /\ handled[ConfigLoopLimit + 1].messageContent = Snap3
  /\ "a2" \in DOMAIN nodes
  /\ config[1].customParams = Snap3.customParams

\* the entries of a snapshot with a declared class, and the last entry of a
\* snapshot for an address
Declared(cfg) ==
  {i \in 1..Len(cfg.newNodes) : cfg.newNodes[i].nodedef \in NodeDefIds}
LastFor(cfg, a) ==
  CHOOSE i \in 1..Len(cfg.newNodes) :
    /\ slice5(cfg.newNodes[i].address) = a
    /\ \A j \in (i + 1)..Len(cfg.newNodes) :
         slice5(cfg.newNodes[j].address) # a

EntriesFor(cfg, a) ==
  {i \in 1..Len(cfg.newNodes) : slice5(cfg.newNodes[i].address) = a}
PresentProps(cfg, a) ==
  {MergedProps[k] : k \in {j \in 1..Len(MergedProps) :
     \E i \in EntriesFor(cfg, a) : MergedProps[j] \in DOMAIN cfg.newNodes[i]}}

\* C25: when a snapshot is processed, a device is constructed only for an
\* address that is not in the registry and has an entry of a declared class;
\* a device that is in the registry and is listed stays there with every
\* field as it was, but for those of controller, drivers, isprimary,
\* profileNum and timeAdded that an entry for it has
C25_KeptAndMergedInPlace ==
  [][ProcessesConfig =>
       LET cfg == Processed IN
       /\ \A a \in DOMAIN nodes \cap AddressesOf(cfg) :
            /\ a \in DOMAIN nodes'
            /\ DOMAIN nodes'[a] = DOMAIN nodes[a] \cup PresentProps(cfg, a)
            /\ \A f \in DOMAIN nodes[a] \ PresentProps(cfg, a) :
                 nodes'[a][f] = nodes[a][f]
       /\ \A a \in DOMAIN nodes' \ DOMAIN nodes :
            \E i \in EntriesFor(cfg, a) \cap Declared(cfg) :
              LET n == cfg.newNodes[i]
                  fresh == NewNode(n.nodedef, slice5(n.primary), a, n.name)
              IN  \A f \in DOMAIN fresh \ PresentProps(cfg, a) :
                    nodes'[a][f] = fresh[f]]_vars

\* C25 witness: the device constructed for the snapshot that gave it a
\* drivers property was listed again by a snapshot without one and with
\* another isprimary: it has the drivers of the first and the isprimary of
\* the second
C25_Witness ==
  /\ Len(handled) = 2
  /\ handled[1].messageContent = Snap5 /\ handled[1].disp = "dispatched"
  /\ handled[2].messageContent = Snap1 /\ handled[2].disp = "dispatched"
  /\ handled[2].state # "running"
  /\ nodes["a1"].drivers = Snap5.newNodes[1].drivers
  /\ nodes["a1"].isprimary = BoolV(TRUE)

(***************************************************************************)
(* Properties of the drivers (SpecNode).                                   *)
(***************************************************************************)
\* the step is a call of setDriver by the hosting application; TheCall is it
CallsSetDriver ==
  Len(api') = Len(api) + 1 /\ api'[Len(api')].op = "setDriver"
TheCall == api'[Len(api')]
\* setDriver accepts the driver: it is one of the node, with value and uom
ValidDriver(a, driver) ==
  /\ a \in DOMAIN nodes
  /\ driver \in DOMAIN nodes[a].drivers
  /\ {"value", "uom"} \subseteq DOMAIN nodes[a].drivers[driver]
\* the status messages among the messages published in the step
NewStatus ==
  {i \in (Len(sent) + 1)..Len(sent') : "status" \in DOMAIN sent'[i].message}
\* what the specification gives for the values of the model: '1' and '0' for
\* the booleans, the decimal string for the numbers, the value otherwise
Coerced(value) ==
  CASE value = BoolV(TRUE) -> StrV("1")
    [] value = BoolV(FALSE) -> StrV("0")
    [] value = NumV(0) -> StrV("0")
    [] value = NumV(12) -> StrV("12")
    [] OTHER -> value

\* C18: while connected, a call setDriver(name, v) with report on and
\* forceReport off whose coerced v differs from the cached value marks the
\* driver changed, stores the coerced value and publishes exactly one
\* message, the status of that driver with the coerced value; the same call
\* made again right after it publishes nothing
C18_SetDriverReportsOnce ==
  [][(/\ CallsSetDriver
      /\ TheCall.report /\ ~TheCall.forceReport
      /\ ValidDriver(TheCall.address, TheCall.driver))
       => LET c == TheCall
              a == c.address
              v == Coerced(c.value)
              marked == setDriver(State, a, c.driver, c.value, FALSE, FALSE,
                                  c.uom)
          IN  /\ (isConnected(State) /\ nodes[a].drivers[c.driver].value # v)
                   => /\ IsChanged(marked.nodes[a].drivers[c.driver])
                      /\ nodes'[a].drivers[c.driver].value = v
                      /\ Len(sent') = Len(sent) + 1
                      /\ sent'[Len(sent')].message.status
                           = [address |-> a, driver |-> c.driver,
                              value |-> v,
                              uom |-> nodes'[a].drivers[c.driver].uom]
              /\ (api # <<>> /\ api[Len(api)] = c) => sent' = sent]_vars

\* C18 witness: setDriver('GV1', 12) was called twice in a row while
\* connected, and one status message, with the value '12', was published
C18_Witness ==
  /\ Len(api) = 2
  /\ api[1] = Call("setDriver", "a1", "GV1", NumV(12), TRUE, FALSE, 0)
  /\ api[2] = api[1]
  /\ isConnected(State)
  /\ Cardinality({i \in 1..Len(sent) :
                    "status" \in DOMAIN sent[i].message}) = 1
  /\ sent[Len(sent)].message.status.value = StrV("12")
  /\ nodes["a1"].drivers["GV1"].value = StrV("12")

\* C19: a call of setDriver on a driver of the node stores the coerced value,
\* '1' for true and '0' for false whatever the uom of the driver, the decimal
\* string for a number and the value itself otherwise, and a status message
\* it publishes carries that value
C19_BooleanAndNumberCoercion ==
  [][(CallsSetDriver /\ ValidDriver(TheCall.address, TheCall.driver))
       => /\ nodes'[TheCall.address].drivers[TheCall.driver].value
               = Coerced(TheCall.value)
          /\ \A i \in NewStatus :
               sent'[i].message.status.value = Coerced(TheCall.value)]_vars

\* C19 witness: true was set on the driver whose uom is not the boolean one,
\* and '1' was stored and reported with that uom
C19_Witness ==
  /\ api # <<>>
  /\ api[Len(api)].op = "setDriver"
  /\ api[Len(api)].driver = "GV1"
  /\ api[Len(api)].value = BoolV(TRUE)
  /\ "a1" \in DOMAIN nodes
  /\ "GV1" \in DOMAIN nodes["a1"].drivers
  /\ nodes["a1"].drivers["GV1"].value = StrV("1")
  /\ nodes["a1"].drivers["GV1"].uom = OtherUom
  /\ sent[Len(sent)].message
       = [status |-> [address |-> "a1", driver |-> "GV1",
                      value |-> StrV("1"), uom |-> OtherUom],
          node |-> ProfileNumStr]

\* C20: the driver names of every registered device are those its class gave
\* it when it was constructed
C20_DriverKeysFixed ==
  \A a \in DOMAIN nodes :
    DOMAIN nodes[a].drivers = DOMAIN DriversOf(nodes[a].id)

\* the step is a call of reportDriver by the hosting application
CallsReportDriver ==
  Len(api') = Len(api) + 1 /\ api'[Len(api')].op = "reportDriver"

\* C24: a call reportDriver(name, forceReport) on a driver of the node
\* publishes a status message if and only if the driver is marked changed or
\* forceReport is true, and then the driver is not marked changed any more;
\* otherwise nothing is published and the driver is left as it was
C24_ReportIffChangedOrForced ==
  [][(/\ CallsReportDriver
      /\ TheCall.address \in DOMAIN nodes
      /\ TheCall.driver \in DOMAIN nodes[TheCall.address].drivers)
       => LET a == TheCall.address
              d == nodes[a].drivers[TheCall.driver]
              due == IsChanged(d) \/ TheCall.forceReport
          IN  /\ due <=> Cardinality(NewStatus) = 1
              /\ NewStatus # {}
                   => ~IsChanged(nodes'[a].drivers[TheCall.driver])
              /\ ~due => /\ sent' = sent
                         /\ nodes'[a].drivers[TheCall.driver] = d]_vars

\* C32: a driver whose cached value is not the value of the last status
\* message published for it is marked changed
C32_ChangedValueNotLost ==
  \A a \in DOMAIN nodes :
    \A d \in DOMAIN nodes[a].drivers :
      LET driver == nodes[a].drivers[d]
          reports == {i \in 1..Len(sent) :
                        /\ "status" \in DOMAIN sent[i].message
                        /\ sent[i].message.status.address = a
                        /\ sent[i].message.status.driver = d}
          last == CHOOSE i \in reports : \A j \in reports : j <= i
          reported == sent[last].message.status.value
      IN  ("value" \in DOMAIN driver /\ reports # {})
            => ((driver.value.t # reported.t \/ driver.value.v # reported.v)
                  => IsChanged(driver))

(***************************************************************************)
(* Properties of the events.                                               *)
(***************************************************************************)
\* the positions of the events of one name among the events emitted
EventsNamed(name) == {i \in 1..Len(events) : events[i].name = name}

\* C21: of the config events emitted, the first one has isInitialConfig true
\* and every later one has it false
C21_OnlyFirstConfigInitial ==
  \A i \in EventsNamed("config") :
    events[i].arg.isInitialConfig
      <=> (\A j \in EventsNamed("config") : j >= i)

\* C21 witness: a snapshot was suppressed by the loop guard and a config
\* event was emitted after it, with isInitialConfig false
C21_Witness ==
  /\ \E h \in 1..Len(handled) :
       /\ handled[h].emitted = 0
       /\ h < Len(handled)
       /\ handled[Len(handled)].emitted = 1
  /\ Cardinality(EventsNamed("config")) = ConfigLoopLimit + 1
  /\ events[Len(events)].name = "config"
  /\ ~events[Len(events)].arg.isInitialConfig

\* C22: the first event the interface emits is mqttConnected
C22_MqttConnectedFirst ==
  events # <<>> => events[1].name = "mqttConnected"

(***************************************************************************)
(* Properties of the transport's handlers (SpecConn, SpecInbound).         *)
(***************************************************************************)
\* the step is the client's connect event
Connects == nTransport' # nTransport /\ socket' = "connected"
\* the announcement as published
Announcement == [connected |-> TRUE, node |-> ProfileNumStr]

\* C23: on every connect event the local-connected flag is set, the presence
\* topic and the own topic are subscribed, the announcement connected: true
\* is published retained, whatever the remote presence, and mqttConnected is
\* emitted once, after that publish
C23_ConnectAnnouncesThenEmits ==
  [][Connects =>
       /\ mqttClientConnected'
       /\ {mqttTopicPolyglotConnection, mqttTopic} \subseteq subscribed'
       /\ sent' = Append(sent, [message |-> Announcement, retain |-> TRUE,
                                after |-> Len(events) + 1])
       /\ events' = events \o <<[name |-> "messageSent",
                                 arg |-> Announcement],
                                [name |-> "mqttConnected", arg |-> <<>>]>>
       /\ sent'[Len(sent')].after < Len(events')]_vars

\* C23 witness: the session is connected for the second time, the remote
\* presence has never been observed, and the last thing published is the
\* second retained announcement, followed by mqttConnected
C23_Witness ==
  /\ socket = "connected"
  /\ mqttClientConnected
  /\ ~presence /\ ~mqttPolyglotConnected
  /\ Cardinality(EventsNamed("mqttConnected")) = 2
  /\ Len(sent) = 2
  /\ sent[2].message = Announcement /\ sent[2].retain
  /\ events[Len(events)].name = "mqttConnected"
  /\ sent[2].after = Len(events) - 1

\* the step is a message the message handler passes over
Ignores == nIgnored' # nIgnored

\* C26: a message that is empty, that does not parse or whose node is not
\* 'polyglot' changes nothing of the session and emits nothing; the
\* remote-presence flag changes only with a message of the remote
\* counterpart on the presence topic
C26_ForeignOrEmptyIgnored ==
  [][/\ Ignores =>
          UNCHANGED <<mqttClientConnected, mqttPolyglotConnected,
                      shuttingDown, config, nodes, configCounter,
                      configTimers, tracking, calls, pool, Qprocessing,
                      ticks, handled, nAdded, events, sent, subscribed>>
     /\ mqttPolyglotConnected' # mqttPolyglotConnected =>
          /\ ~Ignores
          /\ presence' = mqttPolyglotConnected'
          /\ presence' # presence]_vars

\* C26 witness: messages were passed over and the session has the remote
\* presence, a registered device and an outstanding request, and is not
\* shutting down
C26_Witness ==
  /\ nIgnored = MaxIgnored
  /\ mqttPolyglotConnected
  /\ ~shuttingDown
  /\ "a1" \in DOMAIN nodes
  /\ \E c \in Calls : Outstanding(c)
  /\ events[Len(events)].name = "config"

\* C34: of two config events emitted one after the other, with or without
\* suppressed snapshots between them, the later one carries
\* newParamsDetected = true when the custom parameters of its snapshot differ
\* from those of the snapshot of the earlier one
C34_ParamChangeNotHidden ==
  \A i \in EventsNamed("config"), j \in EventsNamed("config") :
    (/\ i < j
     /\ \A k \in EventsNamed("config") : ~(i < k /\ k < j)
     /\ ParamsDiffer(events[i].arg.config.customParams,
                     events[j].arg.config.customParams))
      => events[j].arg.config.newParamsDetected

=============================================================================
